---- MODULE Spec2Model ----
(***************************************************************************)
(* A model of ljobx's resilient fetch layer, api/linkedin_client.py:       *)
(* LinkedInClient with its proxy pool (_proxies, _proxy_cycle), the        *)
(* health bookkeeping (_mark_failure, _mark_success), the retry loop       *)
(* (_fetch_with_retries) and the semaphore-gated entry points              *)
(* (get_job_list, get_job_details).                                        *)
(*                                                                         *)
(* Time is time.time() in whole seconds.  A route is named by its index    *)
(* in self._proxies (1..Len(proxies)); None is the Python None.            *)
(***************************************************************************)
EXTENDS Integers, Sequences, FiniteSets, TLC

VARIABLES
    proxies,      \* self._proxies: sequence of _ProxyState records
    cursor,       \* index of the element next(self._proxy_cycle) yields next
    now,          \* time.time()
    concurrency_limit,  \* self.concurrency_limit, the constructor argument
    max_retries,  \* self.max_retries, the constructor argument
    semaphore,    \* free permits of self.semaphore
    clients,      \* self._clients: address -> "absent" | "open" | "closed"
    pc,           \* per call: where the coroutine stands
    attempt,      \* per call: loop iterations of _fetch_with_retries started
    sel,          \* per call: proxy_state picked in the current iteration
    wake,         \* per call: deadline of the asyncio.sleep it is in
    last_exception,  \* per call: the local of _fetch_with_retries
    gen,          \* per address: how many clients were created for it so far;
                  \* the client in self._clients is the gen-th of its address
    closer,       \* close(): "idle", or "closing" while it awaits the gather
    pending,      \* close(): the aclose() coroutines not finished yet, as
                  \* <<address, gen>> of the client each was made from
    closes,       \* number of close() calls made so far
    observe,      \* harness: whether the calls are traced
    track,        \* harness: per call, what it did (see NoTrack)
    picked,       \* harness: routes _get_next_available_proxy gave to a call
    stale,        \* harness: per address, clients dropped from the cache open
    recorded,     \* harness: per route, failed attempts since its last success
    atCall,       \* harness: per address, the client cached when close() began
    runpc,        \* LinkedInScraper.run: where it stands ("off": no run)
    runerr,       \* run: the exception it ended with, "" for none
    listing,      \* run: job_id of the jobs found on the pages, in page order
    final_results,  \* run: the merged records, <<job_id, job_id of details>>
    progress_queue,  \* run: the progress events put so far, oldest first
    ui,           \* web UI: the session state and what the harness counts
    pm,           \* proxy manager: the state of one get_proxies_from_config call
    scn,          \* scenario: which route is A, the attempts that ended on A,
                  \* whether a success was recorded on B
    op,           \* harness: the last pool operation applied
    arg,          \* harness: the route it returned (next) or was applied to
    prevCursor,   \* harness: cursor before it, when it was a next() call
    before,       \* harness: failures of arg before it, when it was a success
    consec,       \* harness: per route, failures recorded since last success
    failAt,       \* harness: per route, clock at the last recorded failure
    prevDelay,    \* harness: per route, backoff of the failure before the last
    streak,       \* harness: results of consecutive next() calls, no failure between
    streakStart,  \* harness: cursor when the streak began
    skipped       \* harness: per route, consecutive next() calls that found it
                  \* eligible and returned another route

poolVars == <<proxies, cursor, now>>
taskVars == <<concurrency_limit, max_retries, semaphore, clients, pc, attempt,
              sel, wake>>
closeVars == <<closer, pending, closes, atCall>>
traceVars == <<last_exception, gen, observe, track, picked, stale,
               recorded>>
harnessVars == <<op, arg, prevCursor, before, consec, failAt, prevDelay,
                 streak, streakStart, skipped>>
runVars == <<runpc, runerr, listing, final_results>>
vars == <<poolVars, taskVars, harnessVars, closeVars, traceVars, runVars, pm,
          scn, progress_queue, ui>>

----------------------------------------------------------------------------
(* Bounds of the exploration. *)

MaxProxies == 3      \* longest proxies list, pool operations on their own
MaxRoutes == 2       \* longest proxies list, client with concurrent calls
MaxListed == 2       \* longest list one proxy source returns
MaxProviders == 2    \* most entries of proxy_providers in the configuration
MaxClicks == 3       \* Start clicks accepted in one session of the web UI
MaxHandled == 4      \* runs of the start_job block in one session
MaxTime == 2         \* the clock is advanced by Tick up to this value
MaxFailures == 3     \* failures on record, over all routes, explored by SpecPool
MaxStreak == 10      \* longest failure streak explored by SpecBackoff
NumCalls == 2        \* concurrent get_job_list / get_job_details calls
MaxDelay == 1        \* longest pacing delay random.uniform(min_val, max_val) draws
MaxRetries == 2      \* max_retries_per_request of the clients of Spec
TraceRetries == 3    \* SpecTrace takes max_retries_per_request from 1 up to this
MaxCloses == 2       \* close() calls explored by SpecClose
NumPages == 1        \* pages_to_fetch of a run; its other calls fetch details

(* Program constants. *)

BackoffCap == 300    \* min(300, ...) in _mark_failure
NoProxyWait == 5     \* asyncio.sleep(5) when every proxy is on cooldown

None == 0            \* Python None, as a route and as an address
Calls == 1..NumCalls

Min(a, b) == IF a <= b THEN a ELSE b
Max(a, b) == IF a >= b THEN a ELSE b

----------------------------------------------------------------------------
(* _ProxyState and the constructor's pool. *)

ProxyState(address) == [address |-> address, failures |-> 0, cooldown_until |-> 0]

\* __init__, lines 53-60: no proxies gives the single direct route (address
\* None); otherwise the list is shuffled and each address gets a fresh state.
\* Addresses are opaque strings: the n addresses are named 1..n by the place
\* random.shuffle gave them.
\* Mutant: the direct route is put in front of the proxies instead of
\* standing in for an empty list.
NewPoolAlwaysDirect(n) ==
    <<ProxyState(None)>> \o [i \in 1..n |-> ProxyState(i)]

NewPool(n) ==
    IF n = 0
    THEN <<ProxyState(None)>>
    ELSE [i \in 1..n |-> ProxyState(i)]

Routes == 1..Len(proxies)

\* Mutant: the cycle never moves on.
AdvanceStuck(cur, n) == cur

\* itertools.cycle over a list of length n: the position after cur.
Advance(cur, n) == (cur % n) + 1

\* The route reached from cur after d advances.
Pos(cur, d, n) == ((cur - 1 + d) % n) + 1

----------------------------------------------------------------------------
(* _get_next_available_proxy, lines 69-74.  Scan is the for loop with k      *)
(* iterations left: each iteration takes next(self._proxy_cycle), which      *)
(* advances the cycle, and returns the state if its cooldown is over.        *)

RECURSIVE Scan(_, _, _, _)
Scan(ps, cur, t, k) ==
    IF k = 0
    THEN [ret |-> None, cursor |-> cur]
    ELSE IF t >= ps[cur].cooldown_until
         THEN [ret |-> cur, cursor |-> Advance(cur, Len(ps))]
         ELSE Scan(ps, Advance(cur, Len(ps)), t, k - 1)

\* Mutant: a route counts as cooled down only strictly after its deadline.
RECURSIVE ScanStrict(_, _, _, _)
ScanStrict(ps, cur, t, k) ==
    IF k = 0
    THEN [ret |-> None, cursor |-> cur]
    ELSE IF t > ps[cur].cooldown_until
         THEN [ret |-> cur, cursor |-> Advance(cur, Len(ps))]
         ELSE ScanStrict(ps, Advance(cur, Len(ps)), t, k - 1)

GetNextStrict(ps, cur, t) == ScanStrict(ps, cur, t, Len(ps))

\* Mutant: the cursor moves one place per call, however far the scan went.
GetNextAdvanceOne(ps, cur, t) ==
    [ret |-> Scan(ps, cur, t, Len(ps)).ret, cursor |-> Advance(cur, Len(ps))]

\* Mutant: the scan stops one position short of a full round.
GetNextShortScan(ps, cur, t) == Scan(ps, cur, t, Len(ps) - 1)

\* Mutant: every scan starts at the head of the list.
GetNextFromFirst(ps, cur, t) == Scan(ps, 1, t, Len(ps))

\* Mutant: plain round robin, the cooldown is not looked at.
GetNextIgnoresCooldown(ps, cur, t) ==
    [ret |-> cur, cursor |-> Advance(cur, Len(ps))]

GetNextAvailableProxy(ps, cur, t) == Scan(ps, cur, t, Len(ps))

\* Mutant: the backoff is computed from the count before the increment.
MarkFailureOldCount(p, t) ==
    [p EXCEPT !.failures = p.failures + 1,
              !.cooldown_until = t + Min(BackoffCap, 2 ^ p.failures)]

\* Mutant: a failure is counted but starts no cooldown.
MarkFailureNoCooldown(p, t) ==
    [address |-> p.address, failures |-> p.failures + 1,
     cooldown_until |-> p.cooldown_until]

\* Mutant: the increment is applied to a count read before another call's
\* increment, which is lost.
MarkFailureLostUpdate(p, t) ==
    [address |-> p.address, failures |-> 1,
     cooldown_until |-> t + Min(BackoffCap, 2)]

(* _mark_failure, lines 76-84. *)
MarkFailure(p, t) ==
    [p EXCEPT !.failures = p.failures + 1,
              !.cooldown_until = t + Min(BackoffCap, 2 ^ (p.failures + 1))]

\* Mutant: the failure count is reset, the cooldown is left running.
MarkSuccessKeepCooldown(p) == [p EXCEPT !.failures = 0]

(* _mark_success, lines 86-91. *)
MarkSuccess(p) == [p EXCEPT !.failures = 0, !.cooldown_until = 0]

\* Mutant: one permit too many.
SemaphoreInitOffByOne(k) == k + 1

\* __init__, line 45: asyncio.Semaphore(concurrency_limit).
SemaphoreInit(k) == k

----------------------------------------------------------------------------
(* Initial state: the state after LinkedInClient.__init__. *)

InitHarness ==
    /\ op = "init"
    /\ arg = None
    /\ prevCursor = 0
    /\ before = 0
    /\ consec = [r \in Routes |-> 0]
    /\ failAt = [r \in Routes |-> 0]
    /\ prevDelay = [r \in Routes |-> 0]
    /\ streak = <<>>
    /\ streakStart = 0
    /\ skipped = [r \in Routes |-> 0]

Addresses == {proxies[r].address : r \in Routes}

\* Mutant: a client is created for every address in the constructor.
NewClientsEager(as) == [a \in as |-> "open"]

\* __init__, line 51: self._clients = {}, no address has a client.
NewClients(as) == [a \in as |-> "absent"]

\* What the harness records of a call: hist, per loop iteration the route it
\* issued an HTTP attempt on (None for a no-route wait); paced, the pacing
\* sleeps it began; result, the iteration whose response it returned.
NoTrack == [hist |-> <<>>, paced |-> 0, result |-> 0]

\* No get_proxies_from_config call is in progress.
NoManager ==
    [pc |-> "off", err |-> "", config |-> <<>>, alive |-> {}, providers |-> <<>>,
     fetched |-> {}, closed |-> <<>>, all_proxies |-> <<>>, probed |-> {},
     result |-> <<>>]

\* web_ui.py lines 209-214: the session state of a new session. rerun: a
\* rerun asked for by st.rerun() is due. The harness counts clicks (Start
\* clicks that were accepted), handled (runs of the start_job block) and
\* launched (processes started), and keeps fresh (a click is waiting to be
\* handled) and last (how the latest run of the start_job block ended).
SessionInit ==
    [searching |-> FALSE, start_job |-> FALSE, scraper_process |-> "none",
     rerun |-> FALSE, clicks |-> 0, handled |-> 0, launched |-> 0,
     fresh |-> FALSE, last |-> "none"]

\* No scenario is imposed on the outcomes of the HTTP attempts.
NoScenario == [a |-> None, tried |-> 0, won |-> FALSE]

InitClient(most, traced, retries, managers, scenarios) ==
    /\ \E n \in 0..most : proxies = NewPool(n)
    /\ cursor = 1
    /\ now = 0
    /\ concurrency_limit \in 1..NumCalls
    /\ max_retries \in retries
    /\ semaphore = SemaphoreInit(concurrency_limit)
    /\ clients = NewClients(Addresses)
    /\ pc = [c \in Calls |-> "idle"]
    /\ attempt = [c \in Calls |-> 0]
    /\ sel = [c \in Calls |-> None]
    /\ wake = [c \in Calls |-> 0]
    /\ last_exception = [c \in Calls |-> None]
    /\ gen = [a \in Addresses |-> IF clients[a] = "absent" THEN 0 ELSE 1]
    /\ closer = "idle"
    /\ pending = {}
    /\ closes = 0
    /\ observe = traced
    /\ track = [c \in Calls |-> NoTrack]
    /\ picked = {}
    /\ stale = [a \in Addresses |-> 0]
    /\ recorded = [r \in Routes |-> 0]
    /\ atCall = [a \in Addresses |-> 0]
    /\ runpc = "off"
    /\ runerr = ""
    /\ listing = <<>>
    /\ final_results = <<>>
    /\ progress_queue = <<>>
    /\ ui = SessionInit
    /\ pm \in managers
    /\ scn \in scenarios
    /\ InitHarness

Init == InitClient(MaxRoutes, FALSE, {MaxRetries}, {NoManager}, {NoScenario})

InitTrace == InitClient(MaxRoutes, TRUE, 1..TraceRetries, {NoManager},
                        {NoScenario})

InitPool ==
    InitClient(MaxProxies, FALSE, {MaxRetries}, {NoManager}, {NoScenario})

----------------------------------------------------------------------------
(* The clock. *)

Elapse ==
    /\ now < MaxTime
    /\ now' = now + 1

PoolTick ==
    /\ Elapse
    /\ op' = "tick"
    /\ arg' = None
    /\ prevCursor' = 0
    /\ before' = 0
    /\ UNCHANGED <<proxies, cursor, taskVars, consec, failAt, prevDelay,
                   streak, streakStart, closeVars, runVars, traceVars,
                   skipped, pm, scn, progress_queue, ui>>

----------------------------------------------------------------------------
(* The pool's three operations, applied one at a time. *)

AllEligible == \A r \in Routes : now >= proxies[r].cooldown_until

PoolNext ==
    LET got == GetNextAvailableProxy(proxies, cursor, now)
        fresh == streak = <<>> \/ Len(streak) >= Len(proxies)
    IN  /\ cursor' = got.cursor
        /\ op' = "next"
        /\ arg' = got.ret
        /\ prevCursor' = cursor
        /\ before' = 0
        /\ IF fresh
           THEN IF AllEligible
                THEN streak' = <<got.ret>> /\ streakStart' = cursor
                ELSE streak' = <<>> /\ streakStart' = 0
           ELSE streak' = Append(streak, got.ret) /\ UNCHANGED streakStart
        /\ skipped' = [r \in Routes |->
                          IF got.ret # r /\ now >= proxies[r].cooldown_until
                          THEN skipped[r] + 1
                          ELSE 0]
        /\ UNCHANGED <<proxies, now, taskVars, consec, failAt, prevDelay,
                       closeVars, runVars, traceVars, pm, scn,
                       progress_queue, ui>>

PoolFail(r) ==
    /\ proxies' = [proxies EXCEPT ![r] = MarkFailure(proxies[r], now)]
    /\ op' = "fail"
    /\ arg' = r
    /\ prevCursor' = 0
    /\ before' = 0
    /\ consec' = [consec EXCEPT ![r] = consec[r] + 1]
    /\ failAt' = [failAt EXCEPT ![r] = now]
    /\ prevDelay' = [prevDelay EXCEPT ![r] = proxies[r].cooldown_until - failAt[r]]
    /\ streak' = <<>>
    /\ streakStart' = 0
    /\ skipped' = [skipped EXCEPT ![r] = 0]
    /\ UNCHANGED <<cursor, now, taskVars, closeVars, runVars, traceVars, pm,
                   scn, progress_queue, ui>>

PoolSucc(r) ==
    /\ proxies' = [proxies EXCEPT ![r] = MarkSuccess(proxies[r])]
    /\ op' = "succ"
    /\ arg' = r
    /\ prevCursor' = 0
    /\ before' = proxies[r].failures
    /\ consec' = [consec EXCEPT ![r] = 0]
    /\ failAt' = [failAt EXCEPT ![r] = 0]
    /\ prevDelay' = [prevDelay EXCEPT ![r] = 0]
    /\ UNCHANGED <<cursor, now, taskVars, streak, streakStart, closeVars,
                   runVars, traceVars,
                   skipped, pm, scn, progress_queue, ui>>

RECURSIVE TotalFailures(_)
TotalFailures(ps) ==
    IF ps = <<>> THEN 0 ELSE Head(ps).failures + TotalFailures(Tail(ps))

NextPool ==
    \/ PoolNext
    \/ \E r \in Routes : TotalFailures(proxies) < MaxFailures /\ PoolFail(r)
    \/ \E r \in Routes : PoolSucc(r)
    \/ PoolTick

SpecPool == InitPool /\ [][NextPool]_vars

\* One route at a time is driven through a long streak of failures.
NextBackoff ==
    \/ \E r \in Routes :
          /\ proxies[r].failures < MaxStreak
          /\ \A q \in Routes \ {r} : proxies[q].failures = 0
          /\ PoolFail(r)
    \/ \E r \in Routes : PoolSucc(r)
    \/ PoolTick

SpecBackoff == InitPool /\ [][NextBackoff]_vars

----------------------------------------------------------------------------
(* get_job_list / get_job_details and _fetch_with_retries.  A call runs     *)
(* without interruption between two awaits (asyncio is cooperative), so     *)
(* every action below is one such stretch: it starts where a suspended      *)
(* call resumes and ends at the next await or at the call's exit.           *)
(*                                                                          *)
(* pc: "idle"      not called yet                                           *)
(*     "acquire"   waiting in async with self.semaphore                     *)
(*     "pacing"    in the pacing asyncio.sleep (lines 138, 144)             *)
(*     "wait"      in asyncio.sleep(5), every proxy on cooldown (line 100)  *)
(*     "http"      in await client.get (line 120)                           *)
(*     "returned"  returned response.text                                   *)
(*     "failed"    raised AllProxiesFailedError                             *)
(*     "raised"    raised another exception                                 *)
(*     "cancelled" cancelled at an await                                    *)

Holding == {"pacing", "wait", "http"}
Terminal == {"returned", "failed", "raised", "cancelled"}

\* Mutant: the permit is given back on the normal return only (acquire and
\* release by hand, no try/finally).
LeaveLeakyOnError(s, how) == IF how = "returned" THEN s + 1 ELSE s

\* Mutant: a cancelled call keeps its permit.
LeaveLeakyOnCancel(s, how) == IF how = "cancelled" THEN s ELSE s + 1

\* Mutant: a call that raises AllProxiesFailedError keeps its permit.
LeaveLeakyOnFailure(s, how) == IF how = "failed" THEN s ELSE s + 1

\* Leaving the async with self.semaphore block (lines 137, 143) releases the
\* permit, however the block is left.
Leave(s, how) == s + 1

\* Mutant: the loop runs once more than max_retries.
ExhaustedLate(a) == a = max_retries + 1

\* for attempt in range(self.max_retries), line 95: a iterations done.
Exhausted(a) == a = max_retries

\* Mutant: a new client is created for every attempt.
CreatesAlways(cl, address) == TRUE

\* Mutant: a closed client in the cache is taken for a usable one.
CreatesWhenAbsent(cl, address) == cl[address] = "absent"

\* Line 106: if client is None or client.is_closed.
Creates(cl, address) == cl[address] \in {"absent", "closed"}

\* scraper.py: a progress event; n is the count PAGE_END carries.
Event(kind, n) == [kind |-> kind, n |-> n]

\* Mutant: every fetch that returns is followed by the put of "JOB".
AnyTask(c) == TRUE

\* scraper.py lines 125-130, 186: call c is the get_job_details call of a
\* detail task of the run; its return is followed by the put of "JOB".
DetailTask(c) == c > NumPages /\ c - NumPages <= Len(listing)

\* The scenario's record of an attempt on route r that ended: attempts on A
\* are counted, a success recorded on the other route is noted.
Outcome(sc, r, ok) ==
    IF sc.a = None THEN sc
    ELSE IF r = sc.a THEN [sc EXCEPT !.tried = @ + 1]
    ELSE IF ok THEN [sc EXCEPT !.won = TRUE]
    ELSE sc

\* Lines 105-115: the cached client of the address is kept unless it is
\* missing or closed; then a new one is created and stored.
WithClient(cl, address) ==
    IF Creates(cl, address)
    THEN [cl EXCEPT ![address] = "open"]
    ELSE cl

\* The harness's record of one loop iteration of call c that got route r
\* (None: no route, the call waits).
Traced(c, r) ==
    IF observe
    THEN [track EXCEPT ![c].hist = Append(@, r)]
    ELSE track

\* Lines 95-120 and 131-134: call c, with a iterations behind it, goes round
\* the loop on the pool ps at time t, up to its next await or to the raise
\* after the loop.
Iterate(c, ps, t, a) ==
    IF Exhausted(a)
    THEN /\ pc' = [pc EXCEPT ![c] = "failed"]
         /\ semaphore' = Leave(semaphore, "failed")
         /\ proxies' = ps
         /\ sel' = [sel EXCEPT ![c] = None]
         /\ wake' = [wake EXCEPT ![c] = 0]
         /\ UNCHANGED <<cursor, clients, attempt, concurrency_limit,
                        max_retries, gen, track, picked, stale, pm, ui>>
    ELSE LET got == GetNextAvailableProxy(ps, cursor, t)
         IN  /\ cursor' = got.cursor
             /\ proxies' = ps
             /\ attempt' = [attempt EXCEPT ![c] = a + 1]
             /\ sel' = [sel EXCEPT ![c] = got.ret]
             /\ track' = Traced(c, got.ret)
             /\ UNCHANGED <<semaphore, concurrency_limit, max_retries, pm,
                            ui>>
             /\ IF got.ret = None
                THEN /\ pc' = [pc EXCEPT ![c] = "wait"]
                     /\ wake' = [wake EXCEPT ![c] = t + NoProxyWait]
                     /\ UNCHANGED <<clients, gen, picked, stale, pm, ui>>
                ELSE LET address == ps[got.ret].address
                         made == Creates(clients, address)
                     IN  /\ pc' = [pc EXCEPT ![c] = "http"]
                         /\ wake' = [wake EXCEPT ![c] = 0]
                         /\ clients' = WithClient(clients, address)
                         /\ gen' = IF made
                                   THEN [gen EXCEPT ![address] = @ + 1]
                                   ELSE gen
                         /\ stale' = IF made /\ clients[address] = "open"
                                     THEN [stale EXCEPT ![address] = @ + 1]
                                     ELSE stale
                         /\ picked' = picked \cup {got.ret}

\* The caller starts get_job_list or get_job_details; calls are numbered in
\* the order they are started.
Call(c) ==
    /\ pc[c] = "idle"
    /\ \A b \in 1..(c - 1) : pc[b] # "idle"
    /\ pc' = [pc EXCEPT ![c] = "acquire"]
    /\ UNCHANGED <<poolVars, concurrency_limit, max_retries, semaphore,
                   clients, attempt, sel, wake, harnessVars, closeVars,
                   runVars, traceVars, pm, scn, progress_queue, ui>>

\* Lines 137-138, 143-144: the permit is taken and the pacing sleep begins.
Acquire(c) ==
    /\ pc[c] = "acquire"
    /\ semaphore > 0
    /\ semaphore' = semaphore - 1
    /\ pc' = [pc EXCEPT ![c] = "pacing"]
    /\ \E d \in 0..MaxDelay : wake' = [wake EXCEPT ![c] = now + d]
    /\ track' = IF observe THEN [track EXCEPT ![c].paced = @ + 1] ELSE track
    /\ UNCHANGED <<poolVars, concurrency_limit, max_retries, clients,
                   attempt, sel, harnessVars, closeVars, runVars,
                   last_exception, gen, observe, picked, stale,
                   recorded, pm, scn, progress_queue, ui>>

\* Lines 139-140, 145-146: the pacing sleep is over; the url is built and
\* _fetch_with_retries starts its first iteration.
PacingDone(c) ==
    /\ pc[c] = "pacing"
    /\ now' = Max(now, wake[c])
    /\ Iterate(c, proxies, now', 0)
    /\ UNCHANGED <<harnessVars, closeVars, runVars, last_exception, observe,
                   recorded, pm, scn, progress_queue, ui>>

\* Lines 139, 145: building the url raises (urlencode on params it cannot
\* encode); the exception leaves the async with block.
UrlRaises(c) ==
    /\ pc[c] = "pacing"
    /\ now' = Max(now, wake[c])
    /\ pc' = [pc EXCEPT ![c] = "raised"]
    /\ semaphore' = Leave(semaphore, "raised")
    /\ wake' = [wake EXCEPT ![c] = 0]
    /\ UNCHANGED <<proxies, cursor, concurrency_limit, max_retries, clients,
                   attempt, sel, harnessVars, closeVars, runVars, traceVars,
                   pm, scn, progress_queue, ui>>

\* Lines 100-101: the 5 second sleep is over; continue with the next
\* iteration.
\* Mutant: the lookup after a no-route wait does not use up a loop iteration.
WaitDoneFree(c) ==
    /\ pc[c] = "wait"
    /\ now' = Max(now, wake[c])
    /\ Iterate(c, proxies, now', attempt[c] - 1)
    /\ UNCHANGED <<harnessVars, closeVars, runVars, last_exception, observe,
                   recorded, pm, scn, progress_queue, ui>>

WaitDone(c) ==
    /\ pc[c] = "wait"
    /\ now' = Max(now, wake[c])
    /\ Iterate(c, proxies, now', attempt[c])
    /\ UNCHANGED <<harnessVars, closeVars, runVars, last_exception, observe,
                   recorded, pm, scn, progress_queue, ui>>

\* Lines 120-124: the GET came back with a 2xx status.
\* Mutant: the call returns without recording the success.
HttpOkNoMark(c) ==
    /\ pc[c] = "http"
    /\ pc' = [pc EXCEPT ![c] = "returned"]
    /\ semaphore' = Leave(semaphore, "returned")
    /\ sel' = [sel EXCEPT ![c] = None]
    /\ track' = IF observe
                THEN [track EXCEPT ![c].result = attempt[c]]
                ELSE track
    /\ UNCHANGED <<poolVars, concurrency_limit, max_retries, clients,
                   attempt, wake, harnessVars, closeVars, runVars,
                   last_exception, gen, observe, picked, stale, pm, scn,
                   progress_queue, ui>>
    /\ recorded' = [recorded EXCEPT ![sel[c]] = 0]

HttpOk(c) ==
    /\ pc[c] = "http"
    /\ proxies' = [proxies EXCEPT ![sel[c]] = MarkSuccess(proxies[sel[c]])]
    /\ pc' = [pc EXCEPT ![c] = "returned"]
    /\ semaphore' = Leave(semaphore, "returned")
    /\ sel' = [sel EXCEPT ![c] = None]
    /\ track' = IF observe
                THEN [track EXCEPT ![c].result = attempt[c]]
                ELSE track
    /\ UNCHANGED <<cursor, now, concurrency_limit, max_retries, clients,
                   attempt, wake, harnessVars, closeVars, runVars,
                   last_exception, gen, observe, picked, stale, pm, ui>>
    /\ recorded' = [recorded EXCEPT ![sel[c]] = 0]
    /\ scn' = Outcome(scn, sel[c], TRUE)
    /\ progress_queue' = IF DetailTask(c)
                       THEN Append(progress_queue, Event("JOB", 0))
                       ELSE progress_queue

\* Mutant: the error of a failed attempt is not caught; it ends the call.
HttpFailsPropagates(c) ==
    /\ pc[c] = "http"
    /\ proxies' = [proxies EXCEPT ![sel[c]] = MarkFailure(@, now)]
    /\ pc' = [pc EXCEPT ![c] = "failed"]
    /\ semaphore' = Leave(semaphore, "failed")
    /\ sel' = [sel EXCEPT ![c] = None]
    /\ UNCHANGED <<cursor, now, concurrency_limit, max_retries, clients,
                   attempt, wake, harnessVars, closeVars, runVars, last_exception,
                   gen, observe, track, picked, stale, pm, scn,
                   progress_queue, ui>>
    /\ recorded' = [recorded EXCEPT ![sel[c]] = @ + 1]

\* Mutant: a failed attempt is held against every route of the pool.
HttpFailsMarksAll(c) ==
    /\ pc[c] = "http"
    /\ Iterate(c, [r \in Routes |-> MarkFailure(proxies[r], now)],
               now, attempt[c])
    /\ UNCHANGED <<now, harnessVars, closeVars, runVars, last_exception,
                   observe, pm, scn, progress_queue, ui>>
    /\ recorded' = [recorded EXCEPT ![sel[c]] = @ + 1]

\* Mutant: the pacing sleep is inside the retry loop.
HttpFailsThenPaces(c) ==
    /\ pc[c] = "http"
    /\ proxies' = [proxies EXCEPT ![sel[c]] = MarkFailure(@, now)]
    /\ pc' = [pc EXCEPT ![c] = "pacing"]
    /\ \E d \in 0..MaxDelay : wake' = [wake EXCEPT ![c] = now + d]
    /\ track' = IF observe THEN [track EXCEPT ![c].paced = @ + 1] ELSE track
    /\ UNCHANGED <<cursor, now, concurrency_limit, max_retries, semaphore,
                   clients, attempt, sel, harnessVars, closeVars, runVars,
                   last_exception, gen, observe, picked, stale, pm, scn,
                   progress_queue, ui>>
    /\ recorded' = [recorded EXCEPT ![sel[c]] = @ + 1]

\* Lines 120-121 and 126-129: the GET raised or the status was not 2xx; the
\* failure is recorded and the loop goes on.
HttpFails(c) ==
    /\ pc[c] = "http"
    /\ Iterate(c, [proxies EXCEPT ![sel[c]] = MarkFailure(proxies[sel[c]], now)],
               now, attempt[c])
    /\ UNCHANGED <<now, harnessVars, closeVars, runVars, last_exception,
                   observe, pm, progress_queue, ui>>
    /\ recorded' = [recorded EXCEPT ![sel[c]] = @ + 1]
    /\ scn' = Outcome(scn, sel[c], FALSE)

\* asyncio.CancelledError at the await the call is suspended in.  It is not
\* an Exception, so line 126 does not catch it; a call that holds the permit
\* gives it back on its way out of the async with block.
Cancel(c) ==
    /\ pc[c] \in {"acquire"} \cup Holding
    /\ pc' = [pc EXCEPT ![c] = "cancelled"]
    /\ semaphore' = IF pc[c] \in Holding
                    THEN Leave(semaphore, "cancelled")
                    ELSE semaphore
    /\ sel' = [sel EXCEPT ![c] = None]
    /\ wake' = [wake EXCEPT ![c] = 0]
    /\ UNCHANGED <<poolVars, concurrency_limit, max_retries, clients,
                   attempt, harnessVars, closeVars, runVars, traceVars, pm,
                   scn, progress_queue, ui>>

\* Time passes while calls are suspended.
Tick ==
    /\ Elapse
    /\ UNCHANGED <<proxies, cursor, taskVars, harnessVars, closeVars,
                   runVars, traceVars, pm, scn, progress_queue, ui>>

Step(c) ==
    \/ PacingDone(c)
    \/ UrlRaises(c)
    \/ WaitDone(c)
    \/ HttpOk(c)
    \/ HttpFails(c)

Next ==
    \/ \E c \in Calls : Call(c)
    \/ \E c \in Calls : Acquire(c)
    \/ \E c \in Calls : Step(c)
    \/ \E c \in Calls : Cancel(c)
    \/ Tick

Spec == Init /\ [][Next]_vars

\* A suspended call is resumed: sleeps end, and every HTTP call completes.
FairSpec == Spec /\ \A c \in Calls : WF_vars(Step(c))

\* Moreover a call waiting for a permit gets one when permits are free:
\* release() wakes a waiter of asyncio.Semaphore.
FairGateSpec == FairSpec /\ \A c \in Calls : WF_vars(Acquire(c))

\* The same client, with what each call did on record.
SpecTrace == InitTrace /\ [][Next]_vars

\* ---- close() ----

\* Line 151: one aclose() coroutine per client in self._clients, made from
\* the client objects cached at that moment.
CloseTargets(cl) == {<<a, gen[a]>> : a \in {x \in DOMAIN cl : cl[x] # "absent"}}

\* client.aclose(), line 151: httpx closes an open client and does nothing
\* to a closed one.
AcloseHandle(st) == IF st = "open" THEN "closed" ELSE st

\* Mutant: close() does not wait for the aclose() coroutines.
GatheredAtOnce(p) == TRUE

\* Line 152: await asyncio.gather(*tasks) resumes when every task is done.
Gathered(p) == p = {}

\* close() is called (lines 148-151), at most MaxCloses times.
CloseBegin ==
    /\ closer = "idle"
    /\ closes < MaxCloses
    /\ closer' = "closing"
    /\ closes' = closes + 1
    /\ pending' = pending \cup CloseTargets(clients)
    /\ atCall' = [a \in Addresses |->
                     IF clients[a] # "absent" THEN gen[a] ELSE 0]
    /\ UNCHANGED <<poolVars, taskVars, harnessVars, runVars, traceVars, pm,
                   scn, progress_queue, ui>>

\* One of the gathered aclose() coroutines runs. It acts on the client
\* object it was made from, which is the cached one unless a fetch has
\* stored a newer client for the address since.
Aclose(x) ==
    /\ x \in pending
    /\ pending' = pending \ {x}
    /\ clients' = IF gen[x[1]] = x[2]
                  THEN [clients EXCEPT ![x[1]] = AcloseHandle(@)]
                  ELSE clients
    /\ UNCHANGED <<poolVars, concurrency_limit, max_retries, semaphore, pc,
                   attempt, sel, wake, harnessVars, runVars, closer, closes,
                   atCall, traceVars, pm, scn, progress_queue, ui>>

\* close() returns (lines 152-153).
CloseEnd ==
    /\ closer = "closing"
    /\ Gathered(pending)
    /\ closer' = "idle"
    /\ UNCHANGED <<poolVars, taskVars, harnessVars, runVars, pending, closes,
                   atCall, traceVars, pm, scn, progress_queue, ui>>

NextClose ==
    \/ Next
    \/ CloseBegin
    \/ \E x \in pending : Aclose(x)
    \/ CloseEnd

\* The client with close() called at any moment, also during fetches.
SpecClose == Init /\ [][NextClose]_vars

----------------------------------------------------------------------------
(* LinkedInScraper.run (core/scraper.py) on a client of its own.  Its page  *)
(* fetches are the calls PageCalls and its detail fetches the calls         *)
(* DetailCalls, one per job found.                                          *)
(*                                                                          *)
(* runpc: "off"       not called yet                                        *)
(*        "pages"     in await asyncio.gather of the page tasks, line 152   *)
(*        "details"   in await asyncio.gather of the detail tasks, line 187 *)
(*        "closing"   in await self.client.close(), line 195                *)
(*        "returned"  returned final_results and stats, line 201            *)
(*        "raised"    left by an exception, runerr                          *)
(*        "cancelled" cancelled at an await                                 *)

PageCalls == 1..NumPages
DetailCalls == (NumPages + 1)..NumCalls
JobIds == {"j1", "j2"}

\* The attributes LinkedInClient.__init__ sets (linkedin_client.py, lines
\* 44-60); the class defines no property and no __getattr__.
ClientAttributes ==
    {"concurrency_limit", "semaphore", "delay", "ua", "max_retries",
     "_clients", "_proxies", "_proxy_cycle"}

\* Reading self.client.<name>: the value, or AttributeError.
HasAttr(name) == name \in ClientAttributes

\* The tasks asyncio.gather makes of the coroutines cs.
Launch(cs) == [c \in Calls |-> IF c \in cs THEN "acquire" ELSE pc[c]]

\* The detail task of the k-th job of the listing is call NumPages + k.
Launched == {NumPages + k : k \in 1..Len(listing)}

\* Lines 188-194: details_map keeps, per job_id, the result of the last
\* detail task with that job_id; every job of the listing is merged with
\* the entry of its job_id. A result is <<job_id, task>>.
DetailsMap(jobs, id) ==
    LET ks == {k \in 1..Len(jobs) : jobs[k] = id}
    IN  <<id, CHOOSE k \in ks : \A j \in ks : j <= k>>

Merge(jobs) == [k \in 1..Len(jobs) |-> <<jobs[k], DetailsMap(jobs, jobs[k])>>]

\* Lines 134-152: "INIT" is put, the page fetches are started and gathered.
RunStart ==
    /\ runpc = "off"
    /\ runpc' = "pages"
    /\ pc' = Launch(PageCalls)
    /\ UNCHANGED <<poolVars, concurrency_limit, max_retries, semaphore,
                   clients, attempt, sel, wake, harnessVars, closeVars,
                   traceVars, runerr, listing, final_results, pm, scn, ui>>
    /\ progress_queue' = Append(progress_queue, Event("INIT", 0))

\* Lines 152-187: every page fetch returned; the pages are parsed in the
\* order of the tasks into the listing, "PAGE" is put for every page the
\* loop came to and "PAGE_END:n" after the loop, and the detail fetches of
\* the jobs are started and gathered.
PagesDone ==
    /\ runpc = "pages"
    /\ \A c \in PageCalls : pc[c] = "returned"
    /\ runpc' = "details"
    /\ \E n \in 0..Cardinality(DetailCalls) :
          \E jobs \in [1..n -> JobIds] :
              /\ listing' = jobs
              /\ pc' = Launch({NumPages + k : k \in 1..n})
              /\ \E pages \in 1..NumPages :
                    progress_queue' =
                        progress_queue \o [i \in 1..pages |-> Event("PAGE", 0)]
                                       \o <<Event("PAGE_END", n)>>
    /\ UNCHANGED <<poolVars, concurrency_limit, max_retries, semaphore,
                   clients, attempt, sel, wake, harnessVars, closeVars,
                   traceVars, runerr, final_results, pm, scn, ui>>

\* asyncio.gather without return_exceptions (lines 152, 187): the first
\* exception of a task is raised in run, which has no handler; the other
\* tasks are left running and close() is not reached.
GatherRaises(cs) ==
    /\ \E c \in cs : pc[c] \in {"failed", "raised"}
    /\ runpc' = "raised"
    /\ runerr' = IF \E c \in cs : pc[c] = "failed"
                 THEN "AllProxiesFailedError"
                 ELSE "Exception"
    /\ UNCHANGED <<poolVars, taskVars, harnessVars, closeVars, traceVars,
                   listing, final_results, pm, scn, progress_queue, ui>>

PagesRaise == runpc = "pages" /\ GatherRaises(PageCalls)

DetailsRaise == runpc = "details" /\ GatherRaises(Launched)

\* Lines 187-195: every detail fetch returned; the results are merged and
\* close() is called.
DetailsDone ==
    /\ runpc = "details"
    /\ \A c \in Launched : pc[c] = "returned"
    /\ final_results' = Merge(listing)
    /\ runpc' = "closing"
    /\ closer' = "closing"
    /\ closes' = closes + 1
    /\ pending' = pending \cup CloseTargets(clients)
    /\ atCall' = [a \in Addresses |->
                     IF clients[a] # "absent" THEN gen[a] ELSE 0]
    /\ UNCHANGED <<poolVars, taskVars, harnessVars, traceVars, runerr,
                   listing, pm, scn, progress_queue, ui>>

\* Lines 195-201: close() returns and the stats are read from the client,
\* self.client.success_count first.
RunClosed ==
    /\ runpc = "closing"
    /\ Gathered(pending)
    /\ closer' = "idle"
    /\ IF HasAttr("success_count") /\ HasAttr("failure_count")
       THEN runpc' = "returned" /\ runerr' = ""
       ELSE runpc' = "raised" /\ runerr' = "AttributeError"
    /\ UNCHANGED <<poolVars, taskVars, harnessVars, pending, closes, atCall,
                   traceVars, listing, final_results, pm, scn,
                   progress_queue, ui>>

\* The task running run is cancelled while it awaits a gather: the gather
\* cancels the tasks it waits for, which leave their async with blocks,
\* and the aclose() coroutines that have not run never do.
RunCancel ==
    /\ runpc \in {"pages", "details", "closing"}
    /\ runpc' = "cancelled"
    /\ runerr' = "CancelledError"
    /\ LET cs == IF runpc = "pages" THEN PageCalls
                 ELSE IF runpc = "details" THEN Launched ELSE {}
           hit == {c \in cs : pc[c] \in Holding \cup {"acquire"}}
       IN  /\ pc' = [c \in Calls |-> IF c \in hit THEN "cancelled" ELSE pc[c]]
           /\ semaphore' =
                  semaphore + Cardinality({c \in hit : pc[c] \in Holding})
    /\ closer' = "idle"
    /\ pending' = {}
    /\ UNCHANGED <<poolVars, concurrency_limit, max_retries, clients, attempt,
                   sel, wake, harnessVars, closes, atCall, traceVars, listing,
                   final_results, pm, scn, progress_queue, ui>>

NextRun ==
    \/ RunStart
    \/ \E c \in Calls : Acquire(c)
    \/ \E c \in Calls : Step(c)
    \/ Tick
    \/ PagesDone
    \/ PagesRaise
    \/ DetailsRaise
    \/ DetailsDone
    \/ \E x \in pending : Aclose(x)
    \/ RunClosed
    \/ RunCancel

\* One scraping run, cancelled at any moment or not at all.
SpecRun == InitTrace /\ [][NextRun]_vars

----------------------------------------------------------------------------
(* ProxyManager.get_proxies_from_config, proxy_manager.py lines 95-141, the
   step that produces the proxies list the client is built with. *)

ProxyUrls == {"u1", "u2"}

\* The lists get_proxies of a source can return.
Lists == UNION {[1..n -> ProxyUrls] : n \in 0..MaxListed}

Range(s) == {s[i] : i \in 1..Len(s)}

\* config_data. proxy_providers: the key is absent, or holds something
\* create_providers_from_config rejects, or a list of webshare entries, each
\* written here as the list its API serves. proxies_files: absent, or a list
\* of file entries, written as the proxies get_proxies reads from them.
ProviderConfigs ==
    [kind : {"absent", "invalid"}, serves : {<<>>}] \cup
    [kind : {"list"},
     serves : UNION {[1..k -> Lists] : k \in 0..MaxProviders}]

FileConfigs ==
    [kind : {"absent"}, serves : {<<>>}] \cup [kind : {"list"}, serves : Lists]

Configs ==
    [proxy_providers : ProviderConfigs, proxies_files : FileConfigs,
     validate : BOOLEAN]

\* A call of get_proxies_from_config(cfg, validate) in a world where the
\* liveness probe succeeds through the proxies of up.
ManagerCalled(cfg, up) ==
    [NoManager EXCEPT !.pc = "start", !.config = cfg, !.alive = up]

\* proxy_provider.py lines 14-17: __init__(self, api_key) has one required
\* positional parameter; a call that passes none raises TypeError.
ProxyProviderInit(passed) ==
    IF "api_key" \in passed THEN "ok" ELSE "TypeError"

\* file_proxy_provider.py lines 18-19: super().__init__() passes nothing.
FileProxyProviderInit == ProxyProviderInit({})

\* proxy_manager.py lines 27-56 as called at lines 107-112: the instances, or
\* none at all when ValueError was raised and logged.
CreateProvidersFromConfig(cfg) ==
    IF cfg.proxy_providers.kind = "list"
    THEN [i \in 1..Len(cfg.proxy_providers.serves) |-> "webshare"]
    ELSE <<>>

\* What provider i of the call returns from get_proxies.
Served(i) ==
    IF pm.providers[i] = "file"
    THEN pm.config.proxies_files.serves
    ELSE pm.config.proxy_providers.serves[i]

\* Lines 132-134: the members of the set of all proxies of the lists.
AllProxies == UNION {Range(Served(i)) : i \in pm.fetched}

\* list(set(...)): the members, once each, in an order the hash decides.
ListOfSet(S) ==
    {s \in [1..Cardinality(S) -> S] : \A i, j \in 1..Len(s) : s[i] = s[j] => i = j}

\* Lines 104-123: the providers are built; without any the call returns [].
CreateProviders ==
    /\ pm.pc = "start"
    /\ LET api == CreateProvidersFromConfig(pm.config)
           files == pm.config.proxies_files.kind = "list"
           built == IF files THEN Append(api, "file") ELSE api
       IN  IF files /\ FileProxyProviderInit # "ok"
           THEN pm' = [pm EXCEPT !.pc = "raised", !.err = FileProxyProviderInit,
                                 !.providers = api,
                                 !.closed = [i \in 1..Len(api) |-> 0]]
           ELSE IF built = <<>>
           THEN pm' = [pm EXCEPT !.pc = "returned", !.result = <<>>]
           ELSE pm' = [pm EXCEPT !.pc = "fetching", !.providers = built,
                                 !.closed = [i \in 1..Len(built) |-> 0]]
    /\ UNCHANGED <<poolVars, taskVars, harnessVars, closeVars, traceVars,
                   runVars, scn, progress_queue, ui>>

\* Lines 126-127: get_proxies of provider i returns its list.
FetchReturns(i) ==
    /\ pm.pc = "fetching"
    /\ i \in DOMAIN pm.providers
    /\ i \notin pm.fetched
    /\ pm' = [pm EXCEPT !.fetched = @ \cup {i}]
    /\ UNCHANGED <<poolVars, taskVars, harnessVars, closeVars, traceVars,
                   runVars, scn, progress_queue, ui>>

\* webshare_provider.py lines 48-68: only httpx.HTTPError is handled there;
\* a body that is not the expected JSON raises out of get_proxies, and out of
\* the gather of line 127.
FetchRaises(i) ==
    /\ pm.pc = "fetching"
    /\ i \in DOMAIN pm.providers
    /\ i \notin pm.fetched
    /\ pm.providers[i] = "webshare"
    /\ pm' = [pm EXCEPT !.pc = "raised", !.err = "KeyError"]
    /\ UNCHANGED <<poolVars, taskVars, harnessVars, closeVars, traceVars,
                   runVars, scn, progress_queue, ui>>

\* Lines 127-129: every list is in, the close tasks are started.
FetchGathered ==
    /\ pm.pc = "fetching"
    /\ pm.fetched = DOMAIN pm.providers
    /\ pm' = [pm EXCEPT !.pc = "closing"]
    /\ UNCHANGED <<poolVars, taskVars, harnessVars, closeVars, traceVars,
                   runVars, scn, progress_queue, ui>>

\* Line 129-130: close() of provider i.
CloseProvider(i) ==
    /\ pm.pc = "closing"
    /\ i \in DOMAIN pm.providers
    /\ pm.closed[i] = 0
    /\ pm' = [pm EXCEPT !.closed[i] = 1]
    /\ UNCHANGED <<poolVars, taskVars, harnessVars, closeVars, traceVars,
                   runVars, scn, progress_queue, ui>>

\* Lines 130-141: every close is done; the lists are merged, and returned
\* or handed to _filter_valid_proxies.
CloseGathered ==
    /\ pm.pc = "closing"
    /\ \A i \in DOMAIN pm.providers : pm.closed[i] = 1
    /\ \E all \in ListOfSet(AllProxies) :
          IF pm.config.validate
          THEN pm' = [pm EXCEPT !.pc = "probing", !.all_proxies = all]
          ELSE pm' = [pm EXCEPT !.pc = "returned", !.all_proxies = all,
                                !.result = all]
    /\ UNCHANGED <<poolVars, taskVars, harnessVars, closeVars, traceVars,
                   runVars, scn, progress_queue, ui>>

\* Lines 58-77: _check_proxy(u) has sent its test request.
CheckProxy(u) ==
    /\ pm.pc = "probing"
    /\ u \in Range(pm.all_proxies) \ pm.probed
    /\ pm' = [pm EXCEPT !.probed = @ \cup {u}]
    /\ UNCHANGED <<poolVars, taskVars, harnessVars, closeVars, traceVars,
                   runVars, scn, progress_queue, ui>>

\* Lines 90-93: the probes are gathered, the proxies that answered are kept
\* in the order of the list.
FilterValidProxies ==
    /\ pm.pc = "probing"
    /\ pm.probed = Range(pm.all_proxies)
    /\ LET Up(u) == u \in pm.alive
       IN  pm' = [pm EXCEPT !.pc = "returned",
                            !.result = SelectSeq(pm.all_proxies, Up)]
    /\ UNCHANGED <<poolVars, taskVars, harnessVars, closeVars, traceVars,
                   runVars, scn, progress_queue, ui>>

NextManager ==
    \/ CreateProviders
    \/ \E i \in 1..(MaxProviders + 1) : FetchReturns(i)
    \/ \E i \in 1..(MaxProviders + 1) : FetchRaises(i)
    \/ FetchGathered
    \/ \E i \in 1..(MaxProviders + 1) : CloseProvider(i)
    \/ CloseGathered
    \/ \E u \in ProxyUrls : CheckProxy(u)
    \/ FilterValidProxies

InitManager ==
    InitClient(0, FALSE, {MaxRetries},
               {ManagerCalled(cfg, up) : cfg \in Configs, up \in SUBSET ProxyUrls},
               {NoScenario})

\* One call of get_proxies_from_config, over every configuration.
SpecManager == InitManager /\ [][NextManager]_vars

----------------------------------------------------------------------------
(* The two-route scenario: a pool of routes A and B; the first two attempts
   that end on A fail, every later one succeeds; every attempt on B
   succeeds.  Fetches are started, at most NumCalls at a time, until three
   attempts on A have ended, and every attempt runs to its outcome. *)

ScenarioTime == 7    \* the clock of the scenario runs up to this

\* A is the first or the second route of the shuffled list.
Scenarios == {[NoScenario EXCEPT !.a = r] : r \in 1..2}

InitScenario ==
    /\ InitClient(2, TRUE, 1..TraceRetries, {NoManager}, Scenarios)
    /\ Len(proxies) = 2
    /\ proxies[1].address # None

\* The caller starts one more fetch in the place of one that has ended.
Again(c) ==
    /\ pc[c] \in {"returned", "failed"}
    /\ scn.tried < 3
    /\ pc' = [pc EXCEPT ![c] = "acquire"]
    /\ attempt' = [attempt EXCEPT ![c] = 0]
    /\ track' = [track EXCEPT ![c] = NoTrack]
    /\ UNCHANGED <<poolVars, concurrency_limit, max_retries, semaphore,
                   clients, sel, wake, harnessVars, closeVars, runVars,
                   last_exception, gen, observe, picked, stale, recorded,
                   pm, scn, progress_queue, ui>>

\* The attempt of call c ends as the scenario says.
ScenarioFails(c) ==
    /\ sel[c] = scn.a
    /\ scn.tried < 2
    /\ HttpFails(c)

ScenarioSucceeds(c) ==
    /\ sel[c] # scn.a \/ scn.tried >= 2
    /\ HttpOk(c)

ScenarioTick ==
    /\ now < ScenarioTime
    /\ now' = now + 1
    /\ UNCHANGED <<proxies, cursor, taskVars, harnessVars, closeVars,
                   runVars, traceVars, pm, scn, progress_queue, ui>>

NextScenario ==
    \/ \E c \in Calls : scn.tried < 3 /\ Call(c)
    \/ \E c \in Calls : Again(c)
    \/ \E c \in Calls : Acquire(c)
    \/ \E c \in Calls : PacingDone(c)
    \/ \E c \in Calls : ScenarioFails(c)
    \/ \E c \in Calls : ScenarioSucceeds(c)
    \/ ScenarioTick

SpecScenario == InitScenario /\ [][NextScenario]_vars

----------------------------------------------------------------------------
(* The web UI, web_ui.py main(), lines 315-317 and 405-574.  Streamlit runs
   main() from top to bottom on every widget event and on every st.rerun();
   one run of the script is one action. *)

\* How loading the proxies ends in the start_job block, lines 443-456:
\* "none", no proxy configuration is set; "loaded", a list came back;
\* "caught", ValueError or FileNotFoundError was raised and handled at
\* line 452; "raised", another exception left main().
Loads == {"none", "loaded", "caught", "raised"}

\* Lines 405-414: Start was clicked with keywords and location filled in.
StartClicked(u) ==
    [u EXCEPT !.searching = TRUE, !.start_job = TRUE, !.rerun = TRUE,
              !.clicks = @ + 1, !.fresh = TRUE]

\* Lines 416-423: Stop was clicked while a process is on record.
StopClicked(u) ==
    [u EXCEPT !.searching = FALSE, !.scraper_process = "none",
              !.rerun = TRUE]

\* Lines 425-489: the start_job block.
StartJob(u, load) ==
    LET h == [u EXCEPT !.handled = @ + 1, !.fresh = FALSE]
    IN  CASE load = "caught" ->
                 [h EXCEPT !.last = "failed", !.searching = FALSE,
                           !.rerun = TRUE]
          [] load = "raised" -> [h EXCEPT !.last = "raised"]
          [] OTHER ->
                 [h EXCEPT !.last = "launched", !.launched = @ + 1,
                           !.scraper_process = "alive", !.start_job = FALSE,
                           !.rerun = TRUE]

\* Lines 492-574: the block that polls the queues and the process.
Poll(u) ==
    CASE u.scraper_process = "alive" -> [u EXCEPT !.rerun = TRUE]
      [] u.scraper_process = "dead" ->
             [u EXCEPT !.searching = FALSE, !.scraper_process = "none",
                       !.rerun = TRUE]
      [] OTHER -> [u EXCEPT !.searching = FALSE, !.rerun = TRUE]

\* One run of main() on the session state u.
Script(u, click, filled, load) ==
    LET v == [u EXCEPT !.rerun = FALSE]
    IN  IF click = "start" /\ filled THEN StartClicked(v)
        ELSE IF click = "stop" /\ v.scraper_process # "none"
        THEN StopClicked(v)
        ELSE IF v.start_job THEN StartJob(v, load)
        ELSE IF v.searching THEN Poll(v)
        ELSE v

RunScript(click, filled, load) ==
    /\ ui.start_job /\ ~(click = "start" /\ filled) => ui.handled < MaxHandled
    /\ ui' = Script(ui, click, filled, load)
    /\ UNCHANGED <<poolVars, taskVars, harnessVars, closeVars, traceVars,
                   runVars, pm, scn, progress_queue>>

\* Line 315: the Start button is enabled while searching is false.
ClickStart ==
    /\ ~ui.rerun
    /\ ~ui.searching
    /\ ui.clicks < MaxClicks
    /\ \E filled \in BOOLEAN, load \in Loads : RunScript("start", filled, load)

\* Line 317: the Stop button is enabled while searching is true.
ClickStop ==
    /\ ~ui.rerun
    /\ ui.searching
    /\ \E load \in Loads : RunScript("stop", TRUE, load)

\* The script is run again: st.rerun() asked for it, or another widget
\* was touched.
Rerun == \E load \in Loads : RunScript("none", TRUE, load)

\* The scraper process ends.
ProcessExits ==
    /\ ui.scraper_process = "alive"
    /\ ui' = [ui EXCEPT !.scraper_process = "dead"]
    /\ UNCHANGED <<poolVars, taskVars, harnessVars, closeVars, traceVars,
                   runVars, pm, scn, progress_queue>>

NextUi ==
    \/ ClickStart
    \/ ClickStop
    \/ Rerun
    \/ ProcessExits

InitUi == InitClient(0, FALSE, {MaxRetries}, {NoManager}, {NoScenario})

SpecUi == InitUi /\ [][NextUi]_vars

----------------------------------------------------------------------------
(* The simple design, linkedin_api.py: LinkedInApi keeps one client per
   proxy key from the start, makes one HTTP attempt per call and turns
   every failure into a None or {"error": ...} result.  Its pool has the
   shape of the pool above: failures and cooldown per key, an
   itertools.cycle over the keys. *)

ApiBackoffCap == 60

\* __init__, lines 28-33: client_map has one client per proxy, or the one
\* client of the key None when no proxies are given.
ClientMap == {proxies[r].address : r \in Routes}

\* _get_next_proxy, lines 49-57: the key of the first route of the scan
\* whose cooldown is over, or None when the scan finds none.
ApiGetNextProxy(ps, cur, t) ==
    LET got == Scan(ps, cur, t, Len(ps))
    IN  [key |-> IF got.ret = None THEN None ELSE ps[got.ret].address,
         cursor |-> got.cursor]

\* _mark_failure, lines 59-65.
ApiMarkFailure(p, t) ==
    [p EXCEPT !.failures = p.failures + 1,
              !.cooldown_until = t + Min(ApiBackoffCap, 2 ^ (p.failures + 1))]

\* _fetch, lines 81-90, after the sleep of lines 100, 110: the key is
\* selected and looked up in client_map; a key that is not there raises
\* KeyError, which get_job_list and get_job_details turn into their result;
\* otherwise the request goes out through the client of the key.
ApiFetch(c) ==
    /\ pc[c] = "pacing"
    /\ now' = Max(now, wake[c])
    /\ LET got == ApiGetNextProxy(proxies, cursor, now')
       IN  /\ cursor' = got.cursor
           /\ IF got.key \in ClientMap
              THEN /\ pc' = [pc EXCEPT ![c] = "http"]
                   /\ sel' = [sel EXCEPT ![c] =
                                 CHOOSE r \in Routes : proxies[r].address = got.key]
                   /\ UNCHANGED semaphore
              ELSE /\ pc' = [pc EXCEPT ![c] = "returned"]
                   /\ sel' = [sel EXCEPT ![c] = None]
                   /\ semaphore' = Leave(semaphore, "returned")
    /\ wake' = [wake EXCEPT ![c] = 0]
    /\ UNCHANGED <<proxies, concurrency_limit, max_retries, clients, attempt,
                   harnessVars, closeVars, traceVars, runVars, pm, scn,
                   progress_queue, ui>>

\* Lines 90-93: the response came with a 2xx status.
ApiOk(c) ==
    /\ pc[c] = "http"
    /\ proxies' = [proxies EXCEPT ![sel[c]] = MarkSuccess(proxies[sel[c]])]
    /\ pc' = [pc EXCEPT ![c] = "returned"]
    /\ sel' = [sel EXCEPT ![c] = None]
    /\ semaphore' = Leave(semaphore, "returned")
    /\ UNCHANGED <<cursor, now, concurrency_limit, max_retries, clients,
                   attempt, wake, harnessVars, closeVars, traceVars, runVars,
                   pm, scn, progress_queue, ui>>

\* Lines 94-96 and 104-106, 114-116: the request failed; the failure is
\* recorded and the call returns None or {"error": ...}.
ApiFails(c) ==
    /\ pc[c] = "http"
    /\ proxies' = [proxies EXCEPT ![sel[c]] = ApiMarkFailure(proxies[sel[c]], now)]
    /\ pc' = [pc EXCEPT ![c] = "returned"]
    /\ sel' = [sel EXCEPT ![c] = None]
    /\ semaphore' = Leave(semaphore, "returned")
    /\ UNCHANGED <<cursor, now, concurrency_limit, max_retries, clients,
                   attempt, wake, harnessVars, closeVars, traceVars, runVars,
                   pm, scn, progress_queue, ui>>

NextApi ==
    \/ \E c \in Calls : Call(c)
    \/ \E c \in Calls : Acquire(c)
    \/ \E c \in Calls : ApiFetch(c)
    \/ \E c \in Calls : ApiOk(c)
    \/ \E c \in Calls : ApiFails(c)
    \/ Tick

\* Concurrent get_job_list and get_job_details calls on one LinkedInApi.
SpecApi == Init /\ [][NextApi]_vars

----------------------------------------------------------------------------
(* Properties of the pool operations. *)

EligibleNow == {r \in Routes : now >= proxies[r].cooldown_until}

\* The number of advances that lead from position a to position b.
Dist(a, b, n) == (b - a + n) % n

\* C3: _get_next_available_proxy scans at most len(routes) positions in
\* cyclic order from the cursor and returns the first route whose cooldown
\* has expired (now >= cooldown_until); it returns None exactly when every
\* route is still cooling down, and never returns an ineligible route.
NextReturnsFirstEligible ==
    op = "next" =>
        LET n == Len(proxies)
        IN  /\ (arg = None) <=> (EligibleNow = {})
            /\ arg # None =>
                  /\ arg \in EligibleNow
                  /\ Dist(prevCursor, arg, n) \in 0..(n - 1)
                  /\ \A d \in 0..(Dist(prevCursor, arg, n) - 1) :
                        Pos(prevCursor, d, n) \notin EligibleNow

\* C3 witness: a call that skipped a cooling route and returned a later one.
NextSkippedWitness ==
    /\ op = "next"
    /\ arg # None
    /\ arg # prevCursor
    /\ prevCursor \notin EligibleNow

\* C4: each recorded failure increments the failure count by one and sets
\* cooldown_until = now + min(cap, 2^failures) with the incremented count
\* (cap = 300); after the k-th consecutive failure failures = k, the delay is
\* min(cap, 2^k), never above the cap and not below the delay of the failure
\* before it.  The direct route is treated like any other.
BackoffArithmetic ==
    \A r \in Routes :
        /\ proxies[r].failures = consec[r]
        /\ consec[r] > 0 =>
              LET delay == proxies[r].cooldown_until - failAt[r]
              IN  /\ delay = Min(BackoffCap, 2 ^ consec[r])
                  /\ delay <= BackoffCap
                  /\ delay >= prevDelay[r]

\* C4 witness: the direct route after a streak long enough to hit the cap.
BackoffCappedWitness ==
    /\ proxies[1].address = None
    /\ consec[1] >= 9
    /\ proxies[1].cooldown_until = failAt[1] + BackoffCap
    /\ prevDelay[1] = 256

\* C5: recording a success sets the route's failure count and cooldown to 0
\* whatever they were, a second application changes nothing more, and every
\* other route's health and the rotation cursor are left as they were.
SuccessResetsOnlyItsRoute ==
    [][op' = "succ" =>
          /\ proxies'[arg'].failures = 0
          /\ proxies'[arg'].cooldown_until = 0
          /\ proxies'[arg'].address = proxies[arg'].address
          /\ MarkSuccess(proxies'[arg']) = proxies'[arg']
          /\ Len(proxies') = Len(proxies)
          /\ \A q \in Routes \ {arg'} : proxies'[q] = proxies[q]
          /\ cursor' = cursor]_vars

\* C5 witness: a success on a failed route that is not the one the cursor
\* last selected, while another route keeps its failures.
SuccessWitness ==
    /\ op = "succ"
    /\ before > 0
    /\ proxies[arg].failures = 0
    /\ arg # Pos(cursor, Len(proxies) - 1, Len(proxies))
    /\ \E q \in Routes \ {arg} : proxies[q].failures > 0

\* C6: with N routes all eligible, N consecutive next() calls with no failure
\* recorded in between return every route exactly once, in pool order from
\* the cursor.
RoundRobinFair ==
    \A i \in 1..Len(streak) : streak[i] = Pos(streakStart, i - 1, Len(proxies))

\* C6 witness: a full round over a pool of three routes begun off the first.
RoundRobinWitness ==
    /\ Len(proxies) >= 3
    /\ Len(streak) = Len(proxies)
    /\ streakStart # 1

\* C29: no route is starved: a route that is eligible at each of
\* len(routes) consecutive next() calls, with no failure recorded on it in
\* between, is returned by one of them, whatever the state of the other
\* routes; and a call that returns a route leaves the cursor just past it,
\* forward of where it was, while one that returns none leaves it in place.
NoRouteStarved ==
    /\ \A r \in Routes : skipped[r] <= Len(proxies) - 1
    /\ op = "next" =>
          IF arg = None
          THEN cursor = prevCursor
          ELSE /\ cursor = Advance(arg, Len(proxies))
               /\ Dist(prevCursor, cursor, Len(proxies))
                      = (Dist(prevCursor, arg, Len(proxies)) + 1) % Len(proxies)

\* C29 witness: in a pool of three routes one has stayed eligible through
\* two next() calls that returned the others, one of which is cooling
\* down since.
LongestSkipWitness ==
    /\ Len(proxies) = 3
    /\ \E r, q \in Routes :
          /\ skipped[r] = 2
          /\ now < proxies[q].cooldown_until

\* C7 as stated: every next() call advances the cursor by exactly one
\* position, whatever the scan skipped and whatever it returned.
CursorAdvancesByOne ==
    op = "next" => cursor = Pos(prevCursor, 1, Len(proxies))

\* C7 as amended: a next() call advances the cursor once per position it
\* scanned: past the returned route (one more than the number of routes
\* skipped), or once round the whole pool when it returns None.
CursorAdvancesPastScanned ==
    op = "next" =>
        LET n == Len(proxies)
        IN  IF arg = None
            THEN cursor = Pos(prevCursor, n, n)
            ELSE cursor = Pos(prevCursor, Dist(prevCursor, arg, n) + 1, n)

\* C7 witness: a call that skipped two routes and moved the cursor by three.
CursorSkippedTwoWitness ==
    /\ op = "next"
    /\ Len(proxies) >= 3
    /\ arg # None
    /\ Dist(prevCursor, arg, Len(proxies)) = 2
    /\ cursor = Pos(prevCursor, 3, Len(proxies))

\* C8: when exactly one route is eligible and all others are cooling down,
\* next() returns that route wherever the cursor stands.
SingleEligibleReturned ==
    (op = "next" /\ Cardinality(EligibleNow) = 1) => arg \in EligibleNow

\* C8 witness: the only eligible route, returned from the last position of
\* the scan.
SingleEligibleWitness ==
    /\ op = "next"
    /\ Len(proxies) >= 2
    /\ EligibleNow = {arg}
    /\ Dist(prevCursor, arg, Len(proxies)) = Len(proxies) - 1

DirectPool == \E r \in Routes : proxies[r].address = None

\* C9 as stated: without proxies the pool is the single direct route and
\* next() returns it on every call, also after failures were recorded on it.
DirectAlwaysReturned ==
    DirectPool =>
        /\ Len(proxies) = 1
        /\ op = "next" => arg = 1

\* C9 as amended: without proxies the pool is the single direct route, and
\* next() returns it on every call made when its cooldown has run out
\* (now >= cooldown_until), also with failures on record; a call made while
\* the cooldown of a recorded failure runs returns None.
DirectReturnedWhenEligible ==
    DirectPool =>
        /\ Len(proxies) = 1
        /\ proxies[1].address = None
        /\ op = "next" =>
              /\ now >= proxies[1].cooldown_until => arg = 1
              /\ now < proxies[1].cooldown_until => arg = None

\* C9 witness: the direct route returned with failures on record, its
\* cooldown over.
DirectAfterFailureWitness ==
    /\ DirectPool
    /\ op = "next"
    /\ arg = 1
    /\ proxies[1].failures >= 1

----------------------------------------------------------------------------
(* Properties of the gate and of the retry loop. *)

Holders == {c \in Calls : pc[c] \in Holding}

\* C1: with concurrency_limit = k, at every moment at most k calls are
\* between the semaphore acquire and its release (in the pacing sleep, a
\* no-route wait or an HTTP attempt; route lookups happen inside the steps).
PermitBound == Cardinality(Holders) <= concurrency_limit

\* C1 witness: the gate is saturated by a call in an HTTP attempt and a
\* further call is kept waiting for a permit.
GateSaturatedWitness ==
    /\ Cardinality(Holders) = concurrency_limit
    /\ semaphore = 0
    /\ \E c \in Calls : pc[c] = "acquire"
    /\ \E c \in Calls : pc[c] = "http"

\* C2: every call gives its permit back on every exit path: free permits
\* plus calls holding one always equal concurrency_limit, and once every
\* call has returned, failed, raised or been cancelled all permits are free.
PermitsConserved ==
    /\ semaphore + Cardinality(Holders) = concurrency_limit
    /\ (\A c \in Calls : pc[c] \in Terminal) => semaphore = concurrency_limit

\* C2 witness: all calls are over, none by a normal return: one by
\* AllProxiesFailedError and one cancelled inside the retry loop, after
\* they shared a single permit.
AllExitPathsWitness ==
    /\ concurrency_limit = 1
    /\ \A c \in Calls : pc[c] \in Terminal
    /\ \E c \in Calls : pc[c] = "failed"
    /\ \E c \in Calls : pc[c] = "cancelled" /\ attempt[c] > 0

\* C10: every _fetch_with_retries call terminates: it starts at most
\* max_retries loop iterations, HTTP attempts and no-route waits together,
\* and a call inside the loop always reaches its return or its raise,
\* given that sleeps end and HTTP calls complete.
FetchTerminates ==
    /\ [](\A c \in Calls : attempt[c] <= max_retries)
    /\ \A c \in Calls : (pc[c] \in {"wait", "http"}) ~> (pc[c] \in Terminal)

\* C10 witness: a call that used up its iterations and raised, after the
\* clock was carried forward by a no-route wait.
ExhaustedAfterWaitWitness ==
    /\ \E c \in Calls : pc[c] = "failed" /\ attempt[c] = max_retries
    /\ now >= NoProxyWait

\* ---- What a call reports ----

\* The last loop iteration of a call that issued an HTTP attempt (0: none).
\* The exception of an attempt is named by the iteration that raised it.
LastHttp(h) ==
    LET at == {i \in 1..Len(h) : h[i] # None}
    IN  IF at = {} THEN 0 ELSE CHOOSE i \in at : \A j \in at : j <= i

\* Number of HTTP attempts, and of no-route waits, in a call's iterations.
Issued(h) == Cardinality({i \in 1..Len(h) : h[i] # None})

Waited(h) == Cardinality({i \in 1..Len(h) : h[i] = None})

\* Lines 131-134: the message of AllProxiesFailedError interpolates the
\* local last_exception.
FailureDetail(c) == last_exception[c]

\* C11: when a call ends in AllProxiesFailedError after at least one failed
\* HTTP attempt, the error carries the exception of the last failed attempt.
\* The code does not satisfy this: last_exception is never assigned.
TerminalCarriesLastError ==
    \A c \in Calls :
        (pc[c] = "failed" /\ LastHttp(track[c].hist) # 0)
            => FailureDetail(c) = LastHttp(track[c].hist)

\* C12 as stated: AllProxiesFailedError is raised only after max_retries
\* HTTP attempts were issued; a no-route wait uses up none of them.
ExhaustedOnlyAfterAllHttp ==
    \A c \in Calls : pc[c] = "failed" => Issued(track[c].hist) = max_retries

\* C12, amended: there is one terminal failure, raised when max_retries
\* loop iterations are used up; every HTTP attempt and every no-route wait
\* is one iteration, so a waiting call has used one up for its wait and a
\* failed call issued max_retries minus its waits HTTP attempts.
IterationsSharedByWaits ==
    \A c \in Calls :
        LET h == track[c].hist
        IN  /\ Len(h) = attempt[c]
            /\ pc[c] = "wait" => attempt[c] >= 1 /\ h[attempt[c]] = None
            /\ pc[c] = "http" => attempt[c] >= 1 /\ h[attempt[c]] = sel[c]
                                              /\ sel[c] # None
            /\ pc[c] = "failed" => /\ attempt[c] = max_retries
                                   /\ Issued(h) = max_retries - Waited(h)

\* C12 witness: a call raised AllProxiesFailedError having spent iterations
\* on both, an HTTP attempt and a no-route wait.
FailedWithWaitsWitness ==
    \E c \in Calls :
        /\ pc[c] = "failed"
        /\ Issued(track[c].hist) >= 1
        /\ Waited(track[c].hist) >= 1

\* C13: a fetch raises its terminal error exactly when its iterations are
\* used up without a success: a call that raised AllProxiesFailedError used
\* max_retries iterations and returned nothing, so no attempt's error is
\* propagated while iterations remain; a call that returned returns the
\* response of the HTTP attempt it issued last; and an exception from
\* outside the loop comes before any attempt.
FetchRaisesOnlyWhenExhausted ==
    \A c \in Calls :
        LET t == track[c]
        IN  /\ pc[c] = "failed" => attempt[c] = max_retries /\ t.result = 0
            /\ pc[c] = "returned" => /\ t.result = attempt[c]
                                     /\ t.result >= 1
                                     /\ t.hist[t.result] # None
            /\ pc[c] = "raised" => attempt[c] = 0

\* C13 witness: one call returned a body after an attempt of its own had
\* failed, and another raised AllProxiesFailedError.
SwallowedThenReturnedWitness ==
    /\ \E c \in Calls : /\ pc[c] = "returned"
                        /\ Issued(track[c].hist) >= 2
    /\ \E c \in Calls : pc[c] = "failed"

\* C14: the step in which an HTTP attempt succeeds resets the failure
\* count and the cooldown of the route the attempt used, of that route
\* only, and ends the call with the response of that attempt; it makes no
\* lookup, and a call that returned makes no further lookup, wait or
\* attempt.
SuccessReturnsAtOnce ==
    /\ [][\A c \in Calls :
            (pc[c] = "http" /\ pc'[c] = "returned") =>
                /\ proxies' = [proxies EXCEPT
                                  ![sel[c]] = [address |-> @.address,
                                               failures |-> 0,
                                               cooldown_until |-> 0]]
                /\ cursor' = cursor
                /\ attempt'[c] = attempt[c]
                /\ track'[c].hist = track[c].hist
                /\ track'[c].result = attempt[c]]_vars
    /\ [][\A c \in Calls :
            pc[c] = "returned" =>
                /\ pc'[c] = "returned"
                /\ attempt'[c] = attempt[c]
                /\ track'[c] = track[c]]_vars

\* C14 witness: a call returned from a route that an earlier attempt had
\* failed on, and the route is back to no failures.
ReturnedOnResetRouteWitness ==
    \E c, d \in Calls :
        /\ pc[c] = "returned"
        /\ Len(track[d].hist) >= 2
        /\ track[d].hist[1] # None
        /\ track[d].hist[1] = track[c].hist[track[c].result]
        /\ proxies[track[d].hist[1]].failures = 0

\* C15: the step in which an HTTP attempt fails adds one failure to the
\* route selected for that attempt and leaves every other route as it
\* was; a step of a call from its pacing sleep or from a no-route wait,
\* whatever its lookup finds, changes no route.
FailureRecordedOnSelectedOnly ==
    /\ [][\A c \in Calls :
            (pc[c] = "http" /\ (attempt'[c] # attempt[c] \/ pc'[c] = "failed"))
                => /\ proxies'[sel[c]].failures = proxies[sel[c]].failures + 1
                   /\ proxies'[sel[c]].cooldown_until > now
                   /\ \A r \in Routes \ {sel[c]} : proxies'[r] = proxies[r]]_vars
    /\ [][\A c \in Calls :
            (pc[c] \in {"pacing", "wait"}
                 /\ (attempt'[c] # attempt[c] \/ pc'[c] # pc[c]))
                => proxies' = proxies]_vars

\* C15 witness: in a pool of two routes a call waits for a route after
\* its one failed attempt; the pool holds two failures, of which the call
\* recorded one and its lookup that found no route recorded none.
WaitAfterOneFailureWitness ==
    \E c \in Calls :
        /\ Len(proxies) = 2
        /\ pc[c] = "wait"
        /\ track[c].hist = <<track[c].hist[1], None>>
        /\ track[c].hist[1] # None
        /\ proxies[track[c].hist[1]].failures = 1
        /\ TotalFailures(proxies) = 2

\* Two HTTP attempts of a call with only no-route waits in between.
Consecutive(h, i, j) ==
    /\ i < j
    /\ h[i] # None
    /\ h[j] # None
    /\ \A k \in (i + 1)..(j - 1) : h[k] = None

OnePacingSleep ==
    \A c \in Calls :
        LET t == track[c]
        IN  /\ t.paced <= 1
            /\ pc[c] \in {"idle", "acquire"} => t.paced = 0
            /\ pc[c] = "pacing" => /\ t.paced = 1
                                   /\ c \in Holders
                                   /\ attempt[c] = 0
                                   /\ t.hist = <<>>
            /\ pc[c] \in {"wait", "http", "returned", "failed"} => t.paced = 1

\* C17 witness: a call that went through three loop iterations, one of
\* them a no-route wait, and is over.
PacedOnceRetriedWitness ==
    \E c \in Calls :
        /\ pc[c] \in {"returned", "failed"}
        /\ Len(track[c].hist) >= 3
        /\ Waited(track[c].hist) >= 1
        /\ track[c].paced = 1

\* ---- The client cache ----

\* C18: an address never has more than one open client: no client is
\* dropped from the cache while open, and a client is created for an
\* address only when the cache holds none or a closed one, so fetches
\* through a route, one after the other or at the same time, use the
\* client already there.
OneLiveHandlePerRoute ==
    /\ [](\A a \in Addresses : stale[a] = 0)
    /\ [][\A a \in Addresses :
            gen'[a] # gen[a] => /\ gen'[a] = gen[a] + 1
                                /\ clients[a] # "open"
                                /\ clients'[a] = "open"]_vars

\* C18 witness: two calls have HTTP attempts in flight on the same route,
\* through the one client ever created for it.
SharedHandleWitness ==
    \E c, d \in Calls :
        /\ c # d
        /\ pc[c] = "http"
        /\ pc[d] = "http"
        /\ sel[c] = sel[d]
        /\ gen[proxies[sel[c]].address] = 1
        /\ clients[proxies[sel[c]].address] = "open"

\* C19: clients are created lazily: an address has a client only if
\* _get_next_available_proxy has returned its route to some call, so
\* there is none before the first lookup.
LazyHandles ==
    \A r \in Routes :
        LET a == proxies[r].address
        IN  /\ clients[a] # "absent" => r \in picked
            /\ clients[a] = "absent" <=> gen[a] = 0

\* C19 witness: a call has returned, and of the two routes of the pool one
\* has a client and the other, never returned by a lookup, has none.
UnusedRouteWitness ==
    /\ \E c \in Calls : pc[c] = "returned"
    /\ \E r, q \in Routes :
          /\ clients[proxies[r].address] # "absent"
          /\ q \notin picked
          /\ clients[proxies[q].address] = "absent"

\* C20: when close() returns, every client that was in the cache when it
\* was called is closed; close() acts only on clients that exist; and a
\* client goes from open to closed once: what is closed is never closed
\* again, only replaced by a new client of a later fetch.
CloseClosesAll ==
    /\ [][(closer = "closing" /\ closer' = "idle") =>
            \A a \in Addresses :
                atCall[a] # 0 =>
                    (gen'[a] > atCall[a] \/ clients'[a] = "closed")]_vars
    /\ [](\A x \in pending : x[2] >= 1 /\ clients[x[1]] # "absent")
    /\ [][\A a \in Addresses :
            /\ (clients'[a] = "closed" /\ clients[a] # "closed")
                   => clients[a] = "open" /\ gen'[a] = gen[a]
            /\ (clients[a] = "closed" /\ clients'[a] # "closed")
                   => clients'[a] = "open" /\ gen'[a] = gen[a] + 1]_vars

\* C20 witness: a second close() has returned; the cache holds a closed
\* client, and a route that never got one.
ClosedTwiceWitness ==
    /\ closes = 2
    /\ closer = "idle"
    /\ \E a, b \in Addresses : clients[a] = "closed" /\ clients[b] = "absent"

\* C25: the pool operations of concurrent calls do not interfere. Every
\* route's failure count equals the number of failed attempts on it since
\* the last successful one, whichever calls made them, and every lookup
\* leaves the shared cursor just past the route it returned, or where it
\* was when it returned none: no increment and no advance is lost.
PoolOpsAtomic ==
    /\ [](\A r \in Routes : proxies[r].failures = recorded[r])
    /\ [][\A c \in Calls :
            attempt'[c] = attempt[c] + 1 =>
                cursor' = IF sel'[c] = None
                          THEN cursor
                          ELSE Advance(sel'[c], Len(proxies))]_vars

\* C25 witness: two calls had their first attempts in flight on the one
\* route of the pool at the same time, both failed, and both failures are
\* on record.
ConcurrentFailuresWitness ==
    /\ Len(proxies) = 1
    /\ proxies[1].failures = 2
    /\ \A c \in Calls : pc[c] = "wait" /\ attempt[c] = 2

\* C26: every call that has been started gets a permit, unless it is
\* cancelled first, and comes to an end, given that sleeps end, HTTP
\* calls complete and a free permit is handed to a waiting call.
EveryCallCompletes ==
    \A c \in Calls :
        /\ (pc[c] = "acquire") ~> (pc[c] \in Holding \cup {"cancelled"})
        /\ (pc[c] = "acquire") ~> (pc[c] \in Terminal)

\* C26 witness: the calls shared one permit; one of them spent a no-route
\* wait holding it and raised, and the other has returned.
QueuedBehindWaitWitness ==
    /\ concurrency_limit = 1
    /\ now >= NoProxyWait
    /\ \E c, d \in Calls :
          /\ pc[c] = "failed"
          /\ pc[d] = "returned"

\* C22: a call cancelled at an await leaks nothing. The step that cancels
\* it gives back its permit if it held one and leaves the cache as it is;
\* every client ever created is in the cache, none was dropped open; and
\* every close() takes all clients that exist among its targets.
CancelLeaksNothing ==
    /\ [][\A c \in Calls :
            (pc[c] # "cancelled" /\ pc'[c] = "cancelled") =>
                /\ semaphore' = semaphore + (IF pc[c] \in Holding THEN 1 ELSE 0)
                /\ clients' = clients
                /\ gen' = gen]_vars
    /\ [](\A a \in Addresses :
            gen[a] >= 1 => clients[a] # "absent" /\ stale[a] = 0)
    /\ [][(closer = "idle" /\ closer' = "closing") =>
            \A a \in Addresses : gen[a] >= 1 => <<a, gen[a]>> \in pending']_vars

\* C22 witness: the only call made was cancelled inside its retry loop,
\* and a close() has closed the client it had created.
CancelledThenClosedWitness ==
    \E c \in Calls :
        /\ pc[c] = "cancelled"
        /\ attempt[c] >= 1
        /\ \A d \in Calls \ {c} : pc[d] = "idle"
        /\ closer = "idle"
        /\ \E a \in Addresses : gen[a] = 1 /\ clients[a] = "closed"
        /\ \A a \in Addresses : clients[a] # "open"

\* C30: the step that issues an HTTP attempt leaves an open client in the
\* cache for the address of its route: a new one, stored in place of the
\* old, when the cache held a closed client, and the cached one, not
\* replaced, when that was open.
AttemptOnOpenHandle ==
    [][\A c \in Calls :
          (attempt'[c] = attempt[c] + 1 /\ pc'[c] = "http") =>
              LET a == proxies[sel'[c]].address
              IN  /\ clients'[a] = "open"
                  /\ clients[a] = "closed" => gen'[a] = gen[a] + 1
                  /\ clients[a] = "open" => gen'[a] = gen[a]]_vars

\* C30 witness: an HTTP attempt is in flight on the second client of its
\* address, created after close() had closed the first.
AttemptAfterCloseWitness ==
    \E c \in Calls :
        /\ pc[c] = "http"
        /\ gen[proxies[sel[c]].address] = 2
        /\ clients[proxies[sel[c]].address] = "open"

\* ---- LinkedInScraper.run ----

RunOver == runpc \in {"returned", "raised", "cancelled"}

\* C21: however a run that created a client ends, close() was called
\* once in it and no client is left open. The code does not satisfy this:
\* close() is the statement after the last gather, outside any
\* try/finally.
RunShutsDownOnce ==
    (RunOver /\ \E a \in Addresses : gen[a] >= 1)
        => closes = 1 /\ \A a \in Addresses : clients[a] # "open"

\* C23: a run in which the detail fetch of a job raised
\* AllProxiesFailedError, and which was not cancelled, returns normally.
\* The code does not satisfy this: the gather of line 187 raises the
\* exception in run.
DetailFailureKeepsRun ==
    (/\ RunOver
     /\ runerr # "CancelledError"
     /\ \A c \in PageCalls : pc[c] = "returned"
     /\ \E c \in Launched : pc[c] = "failed")
        => runpc = "returned"

\* C24: a run that got through close() returns its results with the
\* success and failure counters of the client. The code does not satisfy
\* this: LinkedInClient has no such counters, reading them raises.
StatsSnapshotReturned ==
    (closes = 1 /\ closer = "idle" /\ RunOver /\ runerr # "CancelledError")
        => runpc = "returned" /\ runerr = ""

\* C27: a run whose fetches all returned returns the jobs of the listing
\* in listing order, each merged with the details of its own job_id. The
\* list is put together as claimed, but run never returns it (see C24).
MergedListReturned ==
    (final_results # <<>> /\ RunOver /\ runerr # "CancelledError")
        => /\ runpc = "returned"
           /\ Len(final_results) = Len(listing)
           /\ \A k \in 1..Len(listing) :
                 /\ final_results[k][1] = listing[k]
                 /\ final_results[k][2][1] = listing[k]

\* ---- ProxyManager.get_proxies_from_config ----

ManagerOver == pm.pc \in {"returned", "raised"}

\* The candidates of all the sources the configuration names.
Candidates ==
    UNION {Range(pm.config.proxy_providers.serves[i]) :
              i \in 1..Len(pm.config.proxy_providers.serves)}
        \cup Range(pm.config.proxies_files.serves)

SourcesConfigured ==
    \/ pm.config.proxies_files.kind = "list"
    \/ pm.config.proxy_providers.serves # <<>>

\* C28: a call in which no source failed while fetching ends by returning
\* a list without duplicates, of exactly the candidates of all configured
\* sources when validate is off and of exactly those whose probe succeeded
\* when it is on; with no source configured the list is empty and nothing
\* was probed. The code does not satisfy this: with proxies_files
\* configured the file provider cannot be constructed (see C33) and the
\* call raises TypeError.
ManagerReturnsCandidates ==
    (ManagerOver /\ pm.err # "KeyError")
        => /\ pm.pc = "returned"
           /\ \A i, j \in 1..Len(pm.result) : pm.result[i] = pm.result[j] => i = j
           /\ Range(pm.result) =
                  IF pm.config.validate THEN Candidates \cap pm.alive
                  ELSE Candidates
           /\ ~SourcesConfigured => pm.result = <<>> /\ pm.probed = {}

\* ---- The two-route scenario ----

InFlight == {c \in Calls : pc[c] \in {"acquire"} \cup Holding}

\* The call that took this step selected route r for a new attempt.
Selects(c, r) == attempt'[c] = attempt[c] + 1 /\ sel'[c] = r

ScenarioBSucceeded ==
    (scn.a # None /\ scn.tried >= 3 /\ InFlight = {}) => scn.won

ScenarioASelectedEligible ==
    \A c \in Calls :
        (scn.a # None /\ Selects(c, scn.a))
            => now' >= proxies'[scn.a].cooldown_until

\* C31: in the scenario, once three attempts on A have ended and the
\* fetches are over, a success was recorded on B; and no fetch selects A
\* at a moment before the end of A's cooldown.
ScenarioHolds == []ScenarioBSucceeded /\ [][ScenarioASelectedEligible]_vars

\* Three attempts on A have ended, the third one a success after A was
\* selected at the end of its second cooldown, and B recorded a success.
ScenarioCompleteWitness ==
    /\ scn.a # None
    /\ scn.tried = 3
    /\ scn.won
    /\ InFlight = {}
    /\ proxies[scn.a].failures = 0

\* ---- get_job_list and get_job_details ----

\* C32: a get_job_list call issues at most one HTTP attempt. The code
\* does not satisfy this: get_job_list runs the same retry loop as
\* get_job_details, with the max_retries of the client, which
\* LinkedInScraper leaves at its default of 10.
ListFetchSingleAttempt ==
    \A c \in PageCalls : Issued(track[c].hist) <= 1

\* C33: a call whose configuration names a proxies_files list and no
\* proxy_providers ends by returning the proxies read from the files (those
\* that passed the probe when validate is on). The code does not satisfy
\* this: FileProxyProvider.__init__ calls ProxyProvider.__init__ without
\* the api_key it requires, so constructing the provider raises TypeError.
FilesOnlyServed ==
    (/\ ManagerOver
     /\ pm.config.proxy_providers.kind = "absent"
     /\ pm.config.proxies_files.kind = "list")
        => /\ pm.pc = "returned"
           /\ pm.providers = <<"file">>
           /\ Range(pm.result) =
                  IF pm.config.validate
                  THEN Range(pm.config.proxies_files.serves) \cap pm.alive
                  ELSE Range(pm.config.proxies_files.serves)

\* get_proxies of the providers was called in this call (line 126).
CandidatesRequested ==
    \/ pm.pc \in {"fetching", "closing", "probing"}
    \/ pm.pc = "returned" /\ pm.providers # <<>>
    \/ pm.pc = "raised" /\ pm.err = "KeyError"

\* C34: no provider is closed before every fetch has finished, none is
\* probed for before every provider is closed, and a call in which
\* candidates were requested ends with every provider closed once. The
\* code does not satisfy the last part: when get_proxies of a provider
\* raises, the gather of line 127 raises and lines 129-130 are not run.
ProvidersClosedOnce ==
    /\ \A i \in DOMAIN pm.providers :
          /\ pm.closed[i] <= 1
          /\ pm.closed[i] = 1 => pm.fetched = DOMAIN pm.providers
          /\ pm.probed # {} => pm.closed[i] = 1
    /\ (ManagerOver /\ CandidatesRequested)
          => \A i \in DOMAIN pm.providers : pm.closed[i] = 1

\* ---- The progress events of a run ----

\* pages_to_fetch and max_jobs of the run that is modelled.
PagesToFetch == NumPages
MaxJobs == Cardinality(DetailCalls)

Count(kind) ==
    Cardinality({i \in 1..Len(progress_queue) : progress_queue[i].kind = kind})

Rank(kind) ==
    CASE kind = "INIT" -> 0
      [] kind = "PAGE" -> 1
      [] kind = "PAGE_END" -> 2
      [] kind = "JOB" -> 3

\* The gather of the detail tasks returned: every put of the run is done.
RanToEnd == closes >= 1

\* C35: the events put so far are one INIT, then at most ceil(max_jobs/10)
\* PAGE, then at most one PAGE_END:n with n the number of jobs found and
\* n <= max_jobs, then at most n JOB; a run that got through its detail
\* phase has put at least one PAGE, the PAGE_END and exactly n JOB.
ProgressInOrder ==
    /\ runpc # "off" => Count("INIT") = 1 /\ progress_queue[1].kind = "INIT"
    /\ \A i, j \in 1..Len(progress_queue) :
          i < j => Rank(progress_queue[i].kind) <= Rank(progress_queue[j].kind)
    /\ Count("PAGE") <= PagesToFetch
    /\ Count("PAGE_END") <= 1
    /\ \A i \in 1..Len(progress_queue) :
          progress_queue[i].kind = "PAGE_END"
              => /\ progress_queue[i].n = Len(listing)
                 /\ progress_queue[i].n <= MaxJobs
                 /\ Count("JOB") <= progress_queue[i].n
    /\ RanToEnd => /\ Count("PAGE") >= 1
                   /\ Count("PAGE_END") = 1
                   /\ Count("JOB") = Len(listing)

\* A run that found a job got through its detail phase and ended.
ProgressCompleteWitness ==
    /\ RunOver
    /\ RanToEnd
    /\ runerr # "CancelledError"
    /\ Len(listing) >= 1
    /\ Count("JOB") = Len(listing)

\* ---- The web UI ----

\* C36: every run of the start_job block answers a Start click of its own
\* and starts at most one process; once a click is handled start_job is
\* false; after a failed load of the proxies searching is false as well.
\* The code does not satisfy this: on a failed load start_job is left true
\* and the st.rerun() of line 456 runs the block again.
StartHandledOnce ==
    /\ ui.handled <= ui.clicks
    /\ ui.launched <= ui.handled
    /\ ~ui.fresh => ~ui.start_job
    /\ (~ui.fresh /\ ui.last \in {"failed", "raised"})
          => ~ui.searching /\ ui.scraper_process = "none"

\* ---- LinkedInApi ----

\* C37: a request of LinkedInApi goes out only through a route whose
\* cooldown is over at that moment, and a _fetch that finds every route
\* cooling down sends no request and leaves failures and cooldowns as
\* they are. The code does not satisfy this without proxies: the key of
\* the direct route is None, the value _get_next_proxy returns for "no
\* route", and client_map[None] is the direct client.
ApiHonoursCooldown ==
    [][\A c \in Calls :
          (pc[c] = "pacing" /\ pc'[c] # "pacing")
              => /\ pc'[c] = "http"
                    => now' >= proxies[sel'[c]].cooldown_until
                 /\ (\A r \in Routes : now' < proxies[r].cooldown_until)
                    => pc'[c] # "http" /\ proxies' = proxies]_vars

====
